---- MODULE Spec2Model ----
(***************************************************************************)
(* bevy_mod_wanderlust: the per-tick controller pipeline of one            *)
(* controlled body (find_ground, determine_groundedness, the force         *)
(* systems, accumulate_forces, apply_forces), with the jump state machine  *)
(* of controller/movement.rs and the ground cache of controller/ground.rs. *)
(* Spec is that pipeline; FromCastSpec applies Ground::from_cast to any    *)
(* cast and thresholds; BodiesSpec runs the pipeline on two bodies;        *)
(* FirstJumpSpec runs it with either value of first_jump_grounded;         *)
(* GroundedSpec is determine_groundedness on any band, GroundCastSpec the  *)
(* casting branch of find_ground, CapSpec the methods of Cap on f32.       *)
(*                                                                         *)
(* Vectors are represented by their component along gravity.up_vector      *)
(* (the up vector is the unit of that axis).  Times are integers; one tick *)
(* of the physics engine lasts Dt time units, and the durations are not    *)
(* multiples of Dt, so that the floor of a timer at 0 is exercised.        *)
(***************************************************************************)
EXTENDS Integers, FiniteSets, Sequences, TLC

VARIABLES
    pc,                 \* the system of the schedule that runs next
    Jump,               \* struct Jump (settings and runtime timers)
    GroundCaster,       \* struct GroundCaster (skip timer and override)
    GroundCast,         \* GroundCache of any ground
    ViableGroundCast,   \* GroundCache of viable ground
    Grounded,           \* struct Grounded
    ControllerInput,    \* struct ControllerInput
    ControllerVelocity, \* struct ControllerVelocity (synced from the backend)
    contacts_with,      \* RapierContext: the body has at least one contact
    GravityForce,
    MovementForce,
    FloatForce,
    JumpForce,
    UprightForce,
    ControllerForce,
    GroundForce,
    ExternalImpulse,
    GroundImpulse,      \* ExternalImpulse of the ground body
    cast_done,          \* find_ground took the casting branch on this tick
    next_ground,        \* next_viable_ground and next_ground of that branch
    jump_branch,        \* branch jump_force took: "launch", "stop", "sustain", "none"
    JumpSettings,       \* the Jump component as the application inserted it
    was_grounded,       \* Grounded at the previous run of jump_force
    press_time,         \* time since the last airborne rising edge (capped)
    Other,              \* the components of a second controlled body
    Float,              \* struct Float (distance and the grounded band)
    CapCall,            \* a call of Cap::signed_min: self, cap and the result
    launch_time,        \* time since the last jump fired (capped)
    fired               \* a jump fired since the last rising edge of the input

vars == <<pc, Jump, GroundCaster, GroundCast, ViableGroundCast, Grounded,
          ControllerInput, ControllerVelocity, contacts_with, GravityForce,
          MovementForce, FloatForce, JumpForce, UprightForce,
          ControllerForce, GroundForce, ExternalImpulse, GroundImpulse,
          cast_done, next_ground, jump_branch, JumpSettings, was_grounded,
          press_time, Other, Float, CapCall, launch_time, fired>>

----------------------------------------------------------------------------
(* Bounds of the model *)

MaxJumps == 2
MaxVelocity == 2
MaxTime == 6
MaxF32 == 3
MaxOffset == 2

(* Program constants, in the integer units of the model *)

Dt == 2
Mass == 2
GravityAcceleration == -1
InitialForce == 6
SustainForce == 2
StopForce == 1
FloatDistance == 2
FloatMinOffset == -1
FloatMaxOffset == 1
FloatStrength == 2
FloatDampCoefficient == 1
UprightStrength == 1
UprightDampCoefficient == 1
UnstableGroundAngle == 45
MaxGroundAngle == 60

Max(a, b) == IF a >= b THEN a ELSE b

Velocities == {-MaxVelocity, 0, MaxVelocity}

\* Velocity of the backend: the component of linvel along up and the
\* component of angvel about the axis the body tilts on.
VelocitySamples == {[linear |-> v, angular |-> -v] : v \in Velocities}

\* Settings the application may choose (Jump's public fields)
CooldownDurations == {3}
JumpDurations == {5}
BufferDurations == {6}
CoyoteDurations == {3}
SkipGroundCheckDurations == {3}

----------------------------------------------------------------------------
(* Cap: sign independent capping of an f32 *)

\* The f32 that is not a number; comparisons with it are false
NaN == 100

F32Samples == ((-MaxF32)..MaxF32) \cup {NaN}

is_nan(x) == x = NaN

\* reached with a cap that is a number only
is_sign_negative(x) == x < 0

\* f32::max and f32::min: a NaN operand is ignored
f32_max(a, b) ==
    IF is_nan(a) THEN b ELSE IF is_nan(b) THEN a
    ELSE IF a >= b THEN a ELSE b

f32_min(a, b) ==
    IF is_nan(a) THEN b ELSE IF is_nan(b) THEN a
    ELSE IF a <= b THEN a ELSE b

signed_max(self, cap) ==
    IF is_nan(cap) \/ cap = 0
    THEN cap
    ELSE IF is_sign_negative(cap) THEN f32_max(cap, self)
                                  ELSE f32_min(cap, self)

signed_min(self, cap) ==
    IF is_nan(cap) \/ cap = 0
    THEN self
    ELSE IF is_sign_negative(cap) THEN f32_max(cap, self)
                                  ELSE f32_min(cap, self)

\* no method of Cap called yet
NoCall == [method |-> "none", self |-> 0, cap |-> 0, result |-> 0]

----------------------------------------------------------------------------
(* Ground samples *)

\* CastResult: the angle of the normal to the up vector (degrees), the gap
\* between the body and the contact point along up, and the velocity of
\* the ground at the contact point along up.
CastResults ==
    { [angle |-> 0,  gap |-> 1, point_velocity |-> 0],
      [angle |-> 0,  gap |-> 4, point_velocity |-> 2],
      [angle |-> 70, gap |-> 2, point_velocity |-> 0] }

\* CastResult::default(): the normal is the zero vector, which has no angle
\* to the up vector; the angle field of such a cast is NoAngle.
NoAngle == -1
NoCast == [angle |-> NoAngle, gap |-> 0, point_velocity |-> 0]

\* cast.normal.length() > 0.0
normal_nonzero(cast) == cast.angle # NoAngle

viable(cast, max_angle) == cast.angle < max_angle

from_cast(cast, caster) ==
    LET v == viable(cast, caster.max_ground_angle)
        s == viable(cast, caster.unstable_ground_angle) /\ v
    IN  IF normal_nonzero(cast)
        THEN [cast |-> cast, stable |-> s, viable |-> v,
              point_velocity |-> cast.point_velocity]
        ELSE [cast |-> cast, stable |-> FALSE, viable |-> FALSE,
              point_velocity |-> cast.point_velocity]

CacheNone == [tag |-> "None"]
CacheLast(g) == [tag |-> "Last", ground |-> g]
CacheGround(g) == [tag |-> "Ground", ground |-> g]

into_last(cache) ==
    IF cache.tag = "Ground" THEN CacheLast(cache.ground) ELSE cache

\* GroundCache::update that forgets the ground on a missed cast
update_clearing(cache, found, g) ==
    IF found THEN CacheGround(g) ELSE CacheNone

\* GroundCache::update; found = FALSE stands for Option::None
update(cache, found, g) ==
    IF found THEN CacheGround(g) ELSE into_last(cache)

has_current(cache) == cache.tag = "Ground"
has_last(cache) == cache.tag \in {"Ground", "Last"}

----------------------------------------------------------------------------
(* Jump *)

\* a tick that does not stop at 0
tick_unfloored(timer, dt) == IF timer > 0 THEN timer - dt ELSE timer

tick(timer, dt) == IF timer > 0 THEN Max(timer - dt, 0) ELSE timer

tick_timers(j, dt) ==
    [j EXCEPT !.cooldown_timer = tick(j.cooldown_timer, dt),
              !.jump_timer = tick(j.jump_timer, dt),
              !.buffer_timer = tick(j.buffer_timer, dt),
              !.coyote_duration = tick(j.coyote_duration, dt)]

jumping(j) == j.jump_timer > 0

\* can_jump without the cooldown
can_jump_no_cooldown(j, grounded) ==
    LET first_jump == j.remaining_jumps = j.jumps
        g == grounded \/ j.coyote_timer > 0
    IN  IF first_jump /\ ~g THEN FALSE ELSE j.remaining_jumps > 0

can_jump(j, grounded) ==
    LET first_jump == j.remaining_jumps = j.jumps
        g == grounded \/ j.coyote_timer > 0
    IN  IF first_jump /\ ~g
        THEN FALSE
        ELSE j.cooldown_timer <= 0 /\ j.remaining_jumps > 0

\* reset_jump that forgets the charges
reset_jump_timer_only(j) == [j EXCEPT !.jump_timer = 0]

reset_jump(j) == [j EXCEPT !.remaining_jumps = j.jumps, !.jump_timer = 0]

saturating_sub(a, b) == Max(a - b, 0)

\* decay_function is None in the configurations of the model
decay_multiplier(j) == 1

\* jump_force up to the decision: timers ticked, grounded resets done
JumpTicked(j, grounded) ==
    LET j1 == tick_timers(j, Dt)
        j2 == IF grounded THEN [j1 EXCEPT !.coyote_timer = j1.coyote_duration]
                          ELSE j1
    IN  IF j2.cooldown_timer <= 0 /\ grounded THEN reset_jump(j2) ELSE j2

jump_inputted(j, input) == input.jumping /\ ~j.pressed_last_frame

\* the buffer armed on a grounded press instead of an airborne one
JumpBuffered_grounded(j, input, grounded) ==
    IF jump_inputted(j, input) /\ grounded
    THEN [j EXCEPT !.buffer_timer = j.buffer_duration]
    ELSE j

JumpBuffered(j, input, grounded) ==
    IF jump_inputted(j, input) /\ ~grounded
    THEN [j EXCEPT !.buffer_timer = j.buffer_duration]
    ELSE j

\* the branch jump_force takes
JumpBranch(j, input, grounded) ==
    LET j3 == JumpTicked(j, grounded)
        just_jumped == jump_inputted(j3, input) \/ j3.buffer_timer > 0
        j4 == JumpBuffered(j3, input, grounded)
    IN  IF can_jump(j4, grounded) /\ just_jumped THEN "launch"
        ELSE IF jumping(j4)
             THEN IF ~input.jumping THEN "stop" ELSE "sustain"
             ELSE "none"

\* a launch that consumes no charge
JumpLaunched_no_charge(j) ==
    [j EXCEPT !.cooldown_timer = j.cooldown_duration,
              !.jump_timer = j.jump_duration]

\* a launch that does not start the cooldown
JumpLaunched_no_cooldown(j) ==
    [j EXCEPT !.remaining_jumps = saturating_sub(j.remaining_jumps, 1),
              !.jump_timer = j.jump_duration]

JumpLaunched(j) ==
    [j EXCEPT !.remaining_jumps = saturating_sub(j.remaining_jumps, 1),
              !.cooldown_timer = j.cooldown_duration,
              !.jump_timer = j.jump_duration]

JumpStopped(j) == j

\* value of the skip timer after jump_force
SkipTimerAfterJump(timer, branch, j) ==
    IF branch = "sustain" THEN j.skip_ground_check_duration ELSE timer

\* a launch that leaves the gravity and float force in place
ForceAfterJump_kept(f, branch) == f

\* gravity and float force after jump_force
ForceAfterJump(f, branch) == IF branch = "launch" THEN 0 ELSE f

RelativeVelocity ==
    IF has_last(ViableGroundCast)
    THEN ControllerVelocity.linear - ViableGroundCast.ground.point_velocity
    ELSE ControllerVelocity.linear

\* a launch that adds initial_force to the velocity the body has
JumpLinear_additive(j, branch, velocity) ==
    CASE branch = "launch" -> j.initial_force
      [] branch = "stop" -> velocity * (-1 * j.stop_force)
      [] branch = "sustain" -> j.force * decay_multiplier(j)
      [] OTHER -> 0

JumpLinear(j, branch, velocity) ==
    CASE branch = "launch" ->
            ((-1 * velocity * Mass) \div Dt) + j.initial_force
      [] branch = "stop" -> velocity * (-1 * j.stop_force)
      [] branch = "sustain" -> j.force * decay_multiplier(j)
      [] OTHER -> 0

----------------------------------------------------------------------------
(* Initial state: Controller::default *)

\* no ground found by either cast
NoGround ==
    [viable |-> [found |-> FALSE, cast |-> NoCast],
     any |-> [found |-> FALSE, cast |-> NoCast]]

JumpNew(jumps, cooldown, duration, buffer, coyote, skip) ==
    [initial_force |-> InitialForce,
     force |-> SustainForce,
     stop_force |-> StopForce,
     jumps |-> jumps,
     cooldown_duration |-> cooldown,
     jump_duration |-> duration,
     buffer_duration |-> buffer,
     coyote_duration |-> coyote,
     skip_ground_check_duration |-> skip,
     first_jump_grounded |-> TRUE,
     remaining_jumps |-> jumps,
     cooldown_timer |-> 0,
     jump_timer |-> 0,
     buffer_timer |-> 0,
     coyote_timer |-> 0,
     pressed_last_frame |-> FALSE]

\* Float of the controller: the band of determine_groundedness
FloatNew ==
    [distance |-> FloatDistance,
     min_offset |-> FloatMinOffset,
     max_offset |-> FloatMaxOffset]

\* The components of a controlled body, one field per component
BodyNew ==
    [pc |-> "input",
     Jump |-> JumpNew(1, 3, 5, 6, 3, 3),
     GroundCaster |-> [skip_ground_check_timer |-> 0,
                       skip_ground_check_override |-> FALSE,
                       unstable_ground_angle |-> UnstableGroundAngle,
                       max_ground_angle |-> MaxGroundAngle],
     GroundCast |-> CacheNone,
     ViableGroundCast |-> CacheNone,
     Grounded |-> FALSE,
     ControllerInput |-> [jumping |-> FALSE],
     ControllerVelocity |-> [linear |-> 0, angular |-> 0],
     GravityForce |-> 0,
     MovementForce |-> [linear |-> 0, angular |-> 0],
     FloatForce |-> 0,
     JumpForce |-> 0,
     UprightForce |-> 0,
     ControllerForce |-> [linear |-> 0, angular |-> 0],
     GroundForce |-> 0,
     ExternalImpulse |-> [impulse |-> 0, torque_impulse |-> 0],
     ground_entity |-> "floor"]

Init ==
    /\ pc = "input"
    /\ \E n \in 0..MaxJumps, cd \in CooldownDurations, jd \in JumpDurations,
          bd \in BufferDurations, cy \in CoyoteDurations,
          sk \in SkipGroundCheckDurations :
          Jump = JumpNew(n, cd, jd, bd, cy, sk)
    /\ JumpSettings = Jump
    /\ \E o \in BOOLEAN :
          GroundCaster = [skip_ground_check_timer |-> 0,
                          skip_ground_check_override |-> o,
                          unstable_ground_angle |-> UnstableGroundAngle,
                          max_ground_angle |-> MaxGroundAngle]
    /\ GroundCast = CacheNone
    /\ ViableGroundCast = CacheNone
    /\ Grounded = FALSE
    /\ ControllerInput = [jumping |-> FALSE]
    /\ ControllerVelocity = [linear |-> 0, angular |-> 0]
    /\ contacts_with = FALSE
    /\ GravityForce = 0
    /\ MovementForce = [linear |-> 0, angular |-> 0]
    /\ FloatForce = 0
    /\ JumpForce = 0
    /\ UprightForce = 0
    /\ ControllerForce = [linear |-> 0, angular |-> 0]
    /\ GroundForce = 0
    /\ ExternalImpulse = [impulse |-> 0, torque_impulse |-> 0]
    /\ GroundImpulse = 0
    /\ cast_done = FALSE
    /\ next_ground = NoGround
    /\ jump_branch = "none"
    /\ was_grounded = FALSE
    /\ press_time = MaxTime
    /\ Other = BodyNew
    /\ Float = FloatNew
    /\ CapCall = NoCall
    /\ launch_time = MaxTime
    /\ fired = FALSE

\* A controller with the given settings, about to run a system
StartAt(system, jump, caster, float) ==
    /\ pc = system
    /\ Jump = jump
    /\ JumpSettings = jump
    /\ GroundCaster = caster
    /\ Float = float
    /\ GroundCast = CacheNone
    /\ ViableGroundCast = CacheNone
    /\ Grounded = FALSE
    /\ ControllerInput = [jumping |-> FALSE]
    /\ ControllerVelocity = [linear |-> 0, angular |-> 0]
    /\ contacts_with = FALSE
    /\ GravityForce = 0
    /\ MovementForce = [linear |-> 0, angular |-> 0]
    /\ FloatForce = 0
    /\ JumpForce = 0
    /\ UprightForce = 0
    /\ ControllerForce = [linear |-> 0, angular |-> 0]
    /\ GroundForce = 0
    /\ ExternalImpulse = [impulse |-> 0, torque_impulse |-> 0]
    /\ GroundImpulse = 0
    /\ cast_done = FALSE
    /\ next_ground = NoGround
    /\ jump_branch = "none"
    /\ was_grounded = FALSE
    /\ press_time = MaxTime
    /\ Other = BodyNew
    /\ CapCall = NoCall
    /\ launch_time = MaxTime
    /\ fired = FALSE

----------------------------------------------------------------------------
(* The systems, in the order of the schedule *)

\* The schedule with jump_force moved in front of float_force
NextSystem_unchained(system) ==
    CASE system = "input" -> "sync"
      [] system = "sync" -> "find_ground"
      [] system = "find_ground" -> "determine_groundedness"
      [] system = "determine_groundedness" -> "gravity_force"
      [] system = "gravity_force" -> "movement_force"
      [] system = "movement_force" -> "jump_force"
      [] system = "jump_force" -> "float_force"
      [] system = "float_force" -> "upright_force"
      [] system = "upright_force" -> "accumulate_forces"
      [] system = "accumulate_forces" -> "apply_forces"
      [] system = "apply_forces" -> "apply_ground_forces"
      [] system = "apply_ground_forces" -> "physics"
      [] system = "physics" -> "input"

\* The system that runs after a system: the application's input, then
\* WanderlustSet::Sync, Compute (a chain) and Apply (a chain), chained, then
\* the step of the physics engine.
NextSystem(system) ==
    CASE system = "input" -> "sync"
      [] system = "sync" -> "find_ground"
      [] system = "find_ground" -> "determine_groundedness"
      [] system = "determine_groundedness" -> "gravity_force"
      [] system = "gravity_force" -> "movement_force"
      [] system = "movement_force" -> "float_force"
      [] system = "float_force" -> "upright_force"
      [] system = "upright_force" -> "jump_force"
      [] system = "jump_force" -> "accumulate_forces"
      [] system = "accumulate_forces" -> "apply_forces"
      [] system = "apply_forces" -> "apply_ground_forces"
      [] system = "apply_ground_forces" -> "physics"
      [] system = "physics" -> "input"

\* The application's input system writes ControllerInput before the
\* controller systems run.
set_input ==
    /\ pc = "input"
    /\ \E b \in BOOLEAN : ControllerInput' = [jumping |-> b]
    /\ pc' = NextSystem(pc)
    /\ UNCHANGED <<Other, Float, CapCall, Jump, GroundCaster, GroundCast, ViableGroundCast,
                   Grounded, ControllerVelocity, contacts_with, GravityForce,
                   MovementForce, FloatForce, JumpForce, UprightForce,
                   ControllerForce, GroundForce, ExternalImpulse,
                   GroundImpulse, cast_done, next_ground, jump_branch, JumpSettings,
                   was_grounded, press_time, launch_time, fired>>

\* WanderlustSet::Sync
get_velocity_from_backend ==
    /\ pc = "sync"
    /\ \E v \in VelocitySamples : ControllerVelocity' = v
    /\ pc' = NextSystem(pc)
    /\ UNCHANGED <<Other, Float, CapCall, Jump, GroundCaster, GroundCast, ViableGroundCast,
                   Grounded, ControllerInput, contacts_with, GravityForce,
                   MovementForce, FloatForce, JumpForce, UprightForce,
                   ControllerForce, GroundForce, ExternalImpulse,
                   GroundImpulse, cast_done, next_ground, jump_branch, JumpSettings,
                   was_grounded, press_time, launch_time, fired>>

\* What cast_shape or cast_ray hit, with the normal sample_normals gave it:
\* nothing, a hit with a normal, or a hit whose samples gave no normal (no
\* sample in reach, or an average that is zero or not a number).
CastHits ==
    {[found |-> FALSE, cast |-> NoCast]}
    \cup {[found |-> TRUE, cast |-> c] : c \in CastResults}
    \cup {[found |-> TRUE,
           cast |-> [angle |-> NoAngle, gap |-> 1, point_velocity |-> 0]]}

\* cast that returns whatever was hit
cast_unchecked(hit) == hit

\* GroundCastParams::cast: None unless the hit has a normal
cast(hit) ==
    IF hit.found /\ normal_nonzero(hit.cast)
    THEN hit
    ELSE [found |-> FALSE, cast |-> NoCast]

\* GroundCastParams::viable_cast
viable_cast(hit, max_angle) ==
    LET c == cast(hit)
    IN  IF c.found /\ viable(c.cast, max_angle)
        THEN c
        ELSE [found |-> FALSE, cast |-> NoCast]

\* The outcome of viable_cast_iters and cast_iters: both repeat the same
\* casts from the same parameters until one hits.  A hit that is viable is
\* the result of both; after a hit that is not viable, viable_cast slides
\* down the slope and goes on, and may or may not find viable ground.
CastOutcomes(max_angle) ==
    {o \in [viable : {viable_cast(h, max_angle) : h \in CastHits},
            any : {cast(h) : h \in CastHits}] :
        /\ ~o.any.found => ~o.viable.found
        /\ (o.any.found /\ viable(o.any.cast, max_angle)) => o.viable = o.any}

find_ground ==
    /\ pc = "find_ground"
    /\ LET casting == GroundCaster.skip_ground_check_timer = 0
                       /\ ~GroundCaster.skip_ground_check_override
           timer == IF casting
                    THEN GroundCaster.skip_ground_check_timer
                    ELSE Max(GroundCaster.skip_ground_check_timer - Dt, 0)
       IN  /\ IF casting
              THEN \E o \in CastOutcomes(GroundCaster.max_ground_angle) :
                      /\ ViableGroundCast' =
                            update(ViableGroundCast, o.viable.found,
                                   from_cast(o.viable.cast, GroundCaster))
                      /\ GroundCast' =
                            update(GroundCast, o.any.found,
                                   from_cast(o.any.cast, GroundCaster))
                      /\ next_ground' = o
              ELSE /\ UNCHANGED <<ViableGroundCast, GroundCast>>
                   /\ next_ground' = NoGround
           /\ GroundCaster' =
                 [GroundCaster EXCEPT !.skip_ground_check_timer =
                                         IF contacts_with THEN 0 ELSE timer]
           /\ cast_done' = casting
    /\ pc' = NextSystem(pc)
    /\ UNCHANGED <<Other, Float, CapCall, Jump, Grounded, ControllerInput, ControllerVelocity,
                   contacts_with, GravityForce, MovementForce, FloatForce,
                   JumpForce, UprightForce, ControllerForce, GroundForce,
                   ExternalImpulse, GroundImpulse, jump_branch, JumpSettings,
                   was_grounded, press_time, launch_time, fired>>

\* the band test on the last ground in the place of the current one
GroundedBand_last(cache, up_velocity) ==
    IF has_last(cache)
    THEN LET offset == Float.distance - cache.ground.cast.gap
         IN  offset >= Float.min_offset /\ offset <= Float.max_offset
    ELSE FALSE

\* the band not loosened by the velocity
GroundedBand_fixed(cache, up_velocity) ==
    IF has_current(cache)
    THEN LET offset == Float.distance - cache.ground.cast.gap
         IN  offset >= Float.min_offset /\ offset <= Float.max_offset
    ELSE FALSE

GroundedBand(cache, up_velocity) ==
    IF has_current(cache)
    THEN LET offset == Float.distance - cache.ground.cast.gap
             max == IF up_velocity > Float.max_offset
                    THEN Float.max_offset + up_velocity
                    ELSE Float.max_offset
             min == IF up_velocity < Float.min_offset
                    THEN Float.min_offset + up_velocity
                    ELSE Float.min_offset
         IN  offset >= min /\ offset <= max
    ELSE FALSE

determine_groundedness ==
    /\ pc = "determine_groundedness"
    /\ Grounded' = GroundedBand(ViableGroundCast, ControllerVelocity.linear)
    /\ pc' = NextSystem(pc)
    /\ UNCHANGED <<Other, Float, CapCall, Jump, GroundCaster, GroundCast, ViableGroundCast,
                   ControllerInput, ControllerVelocity, contacts_with,
                   GravityForce, MovementForce, FloatForce, JumpForce,
                   UprightForce, ControllerForce, GroundForce,
                   ExternalImpulse, GroundImpulse, cast_done, next_ground, jump_branch,
                   JumpSettings, was_grounded, press_time, launch_time, fired>>

gravity_force ==
    /\ pc = "gravity_force"
    /\ GravityForce' = Mass * GravityAcceleration
    /\ pc' = NextSystem(pc)
    /\ UNCHANGED <<Other, Float, CapCall, Jump, GroundCaster, GroundCast, ViableGroundCast,
                   Grounded, ControllerInput, ControllerVelocity,
                   contacts_with, MovementForce, FloatForce, JumpForce,
                   UprightForce, ControllerForce, GroundForce,
                   ExternalImpulse, GroundImpulse, cast_done, next_ground, jump_branch,
                   JumpSettings, was_grounded, press_time, launch_time, fired>>

\* The component of the movement force along up: the slip term on ground
\* that is not stable points down the slope (ForceScale::None).
MovementLinear(cache) ==
    IF has_current(cache) /\ ~cache.ground.stable THEN -1 ELSE 0

movement_force ==
    /\ pc = "movement_force"
    /\ MovementForce' = [MovementForce EXCEPT !.linear = MovementLinear(GroundCast)]
    /\ pc' = NextSystem(pc)
    /\ UNCHANGED <<Other, Float, CapCall, Jump, GroundCaster, GroundCast, ViableGroundCast,
                   Grounded, ControllerInput, ControllerVelocity,
                   contacts_with, GravityForce, FloatForce, JumpForce,
                   UprightForce, ControllerForce, GroundForce,
                   ExternalImpulse, GroundImpulse, cast_done, next_ground, jump_branch,
                   JumpSettings, was_grounded, press_time, launch_time, fired>>

\* the spring without its damping
FloatLinear_undamped(cache, velocity) ==
    IF has_current(cache) /\ cache.ground.viable
    THEN LET displacement == FloatDistance - cache.ground.cast.gap
         IN  IF displacement > 0 THEN displacement * FloatStrength ELSE 0
    ELSE 0

FloatLinear(cache, velocity) ==
    IF has_current(cache) /\ cache.ground.viable
    THEN LET relative_velocity == velocity - cache.ground.point_velocity
             displacement == FloatDistance - cache.ground.cast.gap
         IN  IF displacement > 0
             THEN displacement * FloatStrength
                  - relative_velocity * FloatDampCoefficient
             ELSE 0
    ELSE 0

float_force ==
    /\ pc = "float_force"
    /\ FloatForce' = FloatLinear(GroundCast, ControllerVelocity.linear)
    /\ pc' = NextSystem(pc)
    /\ UNCHANGED <<Other, Float, CapCall, Jump, GroundCaster, GroundCast, ViableGroundCast,
                   Grounded, ControllerInput, ControllerVelocity,
                   contacts_with, GravityForce, MovementForce, JumpForce,
                   UprightForce, ControllerForce, GroundForce,
                   ExternalImpulse, GroundImpulse, cast_done, next_ground, jump_branch,
                   JumpSettings, was_grounded, press_time, launch_time, fired>>

\* The torque of the upright spring on a body that stands upright
\* (desired_axis is zero): the damping of the angular velocity, its length
\* clamped to the strength of the spring.
UprightAngular(velocity) ==
    LET spring == 0 * UprightStrength
                  - velocity.angular * UprightDampCoefficient
    IN  IF spring > UprightStrength THEN UprightStrength
        ELSE IF spring < -UprightStrength THEN -UprightStrength
        ELSE spring

upright_force ==
    /\ pc = "upright_force"
    /\ UprightForce' = UprightAngular(ControllerVelocity)
    /\ pc' = NextSystem(pc)
    /\ UNCHANGED <<Other, Float, CapCall, Jump, GroundCaster, GroundCast, ViableGroundCast,
                   Grounded, ControllerInput, ControllerVelocity,
                   contacts_with, GravityForce, MovementForce, FloatForce,
                   JumpForce, ControllerForce, GroundForce, ExternalImpulse,
                   GroundImpulse, cast_done, next_ground, jump_branch, JumpSettings,
                   was_grounded, press_time, launch_time, fired>>

jump_force ==
    /\ pc = "jump_force"
    /\ LET branch == JumpBranch(Jump, ControllerInput, Grounded)
           j3 == JumpTicked(Jump, Grounded)
           j4 == JumpBuffered(j3, ControllerInput, Grounded)
           j5 == CASE branch = "launch" -> JumpLaunched(j4)
                   [] branch = "stop" -> JumpStopped(j4)
                   [] OTHER -> j4
       IN  /\ JumpForce' = JumpLinear(j4, branch, RelativeVelocity)
           /\ GravityForce' = ForceAfterJump(GravityForce, branch)
           /\ FloatForce' = ForceAfterJump(FloatForce, branch)
           /\ GroundCaster' =
                 [GroundCaster EXCEPT !.skip_ground_check_timer =
                     SkipTimerAfterJump(@, branch, j4)]
           /\ Jump' = [j5 EXCEPT !.pressed_last_frame = ControllerInput.jumping]
           /\ jump_branch' = branch
           /\ press_time' = IF jump_inputted(j3, ControllerInput) /\ ~Grounded
                            THEN 0
                            ELSE IF press_time + Dt > MaxTime THEN MaxTime
                            ELSE press_time + Dt
           /\ launch_time' = IF branch = "launch" THEN 0
                             ELSE IF launch_time + Dt > MaxTime THEN MaxTime
                             ELSE launch_time + Dt
           /\ fired' = IF branch = "launch" THEN TRUE
                       ELSE IF jump_inputted(j3, ControllerInput) THEN FALSE
                       ELSE fired
    /\ was_grounded' = Grounded
    /\ pc' = NextSystem(pc)
    /\ UNCHANGED <<Other, Float, CapCall, GroundCast, ViableGroundCast,
                   Grounded, ControllerInput, ControllerVelocity, contacts_with, MovementForce,
                   UprightForce, ControllerForce, GroundForce,
                   ExternalImpulse, GroundImpulse, cast_done, next_ground,
                   JumpSettings>>

OpposingForceScale == 1
OpposingMovementForceScale == 0

\* the total that drops the torque of the upright spring
AccumulatedForce_movement_only ==
    [linear |-> MovementForce.linear + JumpForce + FloatForce + GravityForce,
     angular |-> MovementForce.angular]

AccumulatedForce ==
    [linear |-> MovementForce.linear + JumpForce + FloatForce + GravityForce,
     angular |-> MovementForce.angular + UprightForce]

accumulate_forces ==
    /\ pc = "accumulate_forces"
    /\ ControllerForce' = AccumulatedForce
    /\ GroundForce' = -1 * (MovementForce.linear * OpposingMovementForceScale
                            + (JumpForce + FloatForce) * OpposingForceScale)
    /\ pc' = NextSystem(pc)
    /\ UNCHANGED <<Other, Float, CapCall, Jump, GroundCaster, GroundCast, ViableGroundCast,
                   Grounded, ControllerInput, ControllerVelocity,
                   contacts_with, GravityForce, MovementForce, FloatForce,
                   JumpForce, UprightForce, ExternalImpulse, GroundImpulse,
                   cast_done, next_ground, jump_branch, JumpSettings, was_grounded,
                   press_time, launch_time, fired>>

\* WanderlustSet::Apply
apply_forces ==
    /\ pc = "apply_forces"
    /\ ExternalImpulse' =
          [impulse |-> ExternalImpulse.impulse + ControllerForce.linear * Dt,
           torque_impulse |-> ExternalImpulse.torque_impulse
                              + ControllerForce.angular * Dt]
    /\ pc' = NextSystem(pc)
    /\ UNCHANGED <<Other, Float, CapCall, Jump, GroundCaster, GroundCast, ViableGroundCast,
                   Grounded, ControllerInput, ControllerVelocity,
                   contacts_with, GravityForce, MovementForce, FloatForce,
                   JumpForce, UprightForce, ControllerForce, GroundForce,
                   GroundImpulse, cast_done, next_ground, jump_branch, JumpSettings,
                   was_grounded, press_time, launch_time, fired>>

apply_ground_forces ==
    /\ pc = "apply_ground_forces"
    /\ GroundImpulse' = IF has_current(ViableGroundCast)
                        THEN GroundImpulse + GroundForce * Dt
                        ELSE GroundImpulse
    /\ pc' = NextSystem(pc)
    /\ UNCHANGED <<Other, Float, CapCall, Jump, GroundCaster, GroundCast, ViableGroundCast,
                   Grounded, ControllerInput, ControllerVelocity,
                   contacts_with, GravityForce, MovementForce, FloatForce,
                   JumpForce, UprightForce, ControllerForce, GroundForce,
                   ExternalImpulse, cast_done, next_ground, jump_branch, JumpSettings,
                   was_grounded, press_time, launch_time, fired>>

\* PhysicsSet::SyncBackend and the step of the engine: the impulses are
\* consumed and the contacts of the body are recomputed.
physics_step ==
    /\ pc = "physics"
    /\ ExternalImpulse' = [impulse |-> 0, torque_impulse |-> 0]
    /\ GroundImpulse' = 0
    /\ \E c \in BOOLEAN : contacts_with' = c
    /\ pc' = NextSystem(pc)
    /\ UNCHANGED <<Other, Float, CapCall, Jump, GroundCaster, GroundCast, ViableGroundCast,
                   Grounded, ControllerInput, ControllerVelocity,
                   GravityForce, MovementForce, FloatForce, JumpForce,
                   UprightForce, ControllerForce, GroundForce, cast_done,
                   next_ground, jump_branch, JumpSettings, was_grounded, press_time, launch_time, fired>>

Next ==
    \/ set_input
    \/ get_velocity_from_backend
    \/ find_ground
    \/ determine_groundedness
    \/ gravity_force
    \/ movement_force
    \/ float_force
    \/ upright_force
    \/ jump_force
    \/ accumulate_forces
    \/ apply_forces
    \/ apply_ground_forces
    \/ physics_step

Spec == Init /\ [][Next]_vars

----------------------------------------------------------------------------
(* Values jump_force decides on, as functions of the state it starts in *)

RisingEdge == ControllerInput.jumping /\ ~Jump.pressed_last_frame
CooldownAfterTick == Max(Jump.cooldown_timer - Dt, 0)
BufferAfterTick == Max(Jump.buffer_timer - Dt, 0)
RemainingAfterReset ==
    IF Grounded /\ CooldownAfterTick <= 0 THEN Jump.jumps
                                          ELSE Jump.remaining_jumps
CoyoteAfterReset ==
    IF Grounded THEN Max(Jump.coyote_duration - Dt, 0) ELSE Jump.coyote_timer
AtJumpForce == pc = "jump_force"
AfterJumpForce == pc = "accumulate_forces"

----------------------------------------------------------------------------
(* Claims *)

\* C1 (as stated): a jump fires iff (rising edge or buffer_timer > 0) and
\* (grounded or coyote_timer > 0 or remaining_jumps > 0).
C1_Original ==
    [][AtJumpForce /\ Jump.jumps > 0 =>
        ((jump_branch' = "launch") <=>
            /\ RisingEdge \/ BufferAfterTick > 0
            /\ Grounded \/ CoyoteAfterReset > 0 \/ RemainingAfterReset > 0)]_vars

\* C1 (amended): a jump fires iff (rising edge or buffer_timer > 0) and the
\* cooldown has elapsed and a charge remains and (grounded or
\* coyote_timer > 0 or a charge of this sequence is already used), on the
\* values after the timers ticked and the grounded resets.
C1_FiresIff ==
    [][AtJumpForce =>
        ((jump_branch' = "launch") <=>
            /\ RisingEdge \/ BufferAfterTick > 0
            /\ CooldownAfterTick <= 0
            /\ RemainingAfterReset > 0
            /\ \/ Grounded
               \/ CoyoteAfterReset > 0
               \/ RemainingAfterReset # Jump.jumps)]_vars

\* a jump fired in the air
C1_Witness == AfterJumpForce /\ jump_branch = "launch" /\ ~Grounded

\* C2 (as stated): a jump fired while grounded leaves remaining_jumps
\* unchanged.
C2_Original ==
    [][AtJumpForce /\ Grounded /\ jump_branch' = "launch" =>
        Jump'.remaining_jumps = RemainingAfterReset]_vars

\* C2 (amended): every jump that fires, grounded or airborne, takes one
\* charge; with a charge count of 1 a jump fired from the ground leaves no
\* charge, and no jump fires while remaining_jumps is 0 until a grounded
\* tick with the cooldown elapsed.
C2_EveryLaunchTakesCharge ==
    [][AtJumpForce =>
        /\ jump_branch' = "launch" =>
              /\ RemainingAfterReset > 0
              /\ Jump'.remaining_jumps = RemainingAfterReset - 1
        /\ (Jump.remaining_jumps = 0 /\ ~(Grounded /\ CooldownAfterTick <= 0)) =>
              jump_branch' # "launch"]_vars

\* a jump fired from the ground with one charge, which is now used
C2_Witness ==
    /\ AfterJumpForce /\ jump_branch = "launch" /\ Grounded
    /\ Jump.jumps = 1 /\ Jump.remaining_jumps = 0

\* C3: while the body is not grounded coyote_timer decreases by the tick
\* delta on every tick of jump_force, floored at 0.
C3_CoyoteDecays ==
    [][AtJumpForce /\ ~Grounded =>
        Jump'.coyote_timer = Max(Jump.coyote_timer - Dt, 0)]_vars

\* C4: a rising edge in the air, with no charge used, on the tick after a
\* grounded tick (Dt, less than coyote_duration, after it) fires a jump.
C4_CoyoteWindow ==
    [][(/\ AtJumpForce /\ ~Grounded /\ RisingEdge
        /\ Jump.jumps > 0 /\ Jump.remaining_jumps = Jump.jumps
        /\ was_grounded /\ Dt < JumpSettings.coyote_duration) =>
        jump_branch' = "launch"]_vars

C6_Original ==
    [][AtJumpForce /\ Grounded =>
        /\ Jump'.coyote_timer = Jump'.coyote_duration
        /\ jump_branch' # "launch" => Jump'.remaining_jumps = Jump.jumps]_vars

\* C6 (amended): on every grounded tick coyote_timer is set to
\* coyote_duration; remaining_jumps is reset to jumps only if the cooldown
\* has elapsed, and is left as it was otherwise.
C6_GroundedReset ==
    [][AtJumpForce /\ Grounded =>
        /\ Jump'.coyote_timer = Jump'.coyote_duration
        /\ CooldownAfterTick <= 0 =>
              Jump'.remaining_jumps =
                  IF jump_branch' = "launch" THEN Max(Jump.jumps - 1, 0)
                                             ELSE Jump.jumps
        /\ CooldownAfterTick > 0 =>
              Jump'.remaining_jumps = Jump.remaining_jumps]_vars

\* a grounded tick during the cooldown: the used charge is not given back
C6_Witness ==
    /\ AfterJumpForce /\ Grounded /\ jump_branch # "launch"
    /\ Jump.cooldown_timer > 0 /\ Jump.remaining_jumps < Jump.jumps

\* C7: when the input is released while jump_timer > 0, the stop force is
\* applied and the jump timer ends.
C7_StopEndsJump ==
    [][AtJumpForce /\ jump_branch' = "stop" => Jump'.jump_timer = 0]_vars

\* C8: on the tick a jump fires the float and gravity force are zero in the
\* accumulated force: ControllerForce = MovementForce + JumpForce.
C8_LaunchZeroesFloatGravity ==
    (pc = "apply_forces" /\ jump_branch = "launch") =>
        /\ FloatForce = 0
        /\ GravityForce = 0
        /\ ControllerForce.linear = MovementForce.linear + JumpForce

\* a jump fired with a movement force, accumulated
C8_Witness ==
    /\ pc = "apply_forces" /\ jump_branch = "launch"
    /\ MovementForce.linear # 0 /\ Grounded

\* C9: on the tick a jump fires skip_ground_check_timer is set to
\* skip_ground_check_duration.
C9_LaunchArmsSkipTimer ==
    [][AtJumpForce /\ jump_branch' = "launch" =>
        GroundCaster'.skip_ground_check_timer =
            Jump.skip_ground_check_duration]_vars

\* C10: on a tick where the body has a contact the skip timer is 0 from
\* find_ground to the end of the tick, so that the next tick casts.
C10_ContactClearsSkipTimer ==
    (pc = "physics" /\ contacts_with) =>
        GroundCaster.skip_ground_check_timer = 0

\* Velocity of the body along up once the backend has applied the impulse
VelocityAfterImpulse ==
    ControllerVelocity.linear + (ExternalImpulse.impulse \div Mass)

\* Velocity along up of the last viable ground
LastGroundVelocity ==
    IF has_last(ViableGroundCast)
    THEN ViableGroundCast.ground.point_velocity
    ELSE 0

Launched == pc = "apply_ground_forces" /\ jump_branch = "launch"

\* C11 (as stated): when a jump fires, the velocity of the body along up
\* after the launch impulse is applied equals initial_force / mass,
\* whatever the velocity before the launch (here with the ground at rest
\* and no movement force along up).
C11_Original ==
    (Launched /\ LastGroundVelocity = 0 /\ MovementForce.linear = 0) =>
        VelocityAfterImpulse = Jump.initial_force \div Mass

\* C11 (amended): when a jump fires, the velocity of the body along up
\* after the launch impulse is applied does not depend on its velocity
\* before the launch: it is the velocity of the last viable ground plus
\* (initial_force + movement force along up) * dt / mass.
C11_LaunchVelocity ==
    Launched =>
        VelocityAfterImpulse =
            LastGroundVelocity
            + (((Jump.initial_force + MovementForce.linear) * Dt) \div Mass)

\* a jump fired while falling, its impulse applied
C11_Witness == Launched /\ ControllerVelocity.linear < 0

\* the cache after update(next), next = [found, cast]
CacheUpdated(old, new, next) ==
    /\ next.found => new = CacheGround(from_cast(next.cast, GroundCaster))
    /\ (~next.found /\ old.tag = "Ground") => new = CacheLast(old.ground)
    /\ (~next.found /\ old.tag # "Ground") => new = old
    /\ (~next.found /\ has_last(old)) =>
          has_last(new) /\ new.ground = old.ground

\* C12: update(Some(g)) leaves the cache Current with g whatever it was;
\* update(None) turns Current(g) into Last(g) and leaves Last and None as
\* they are, so last() still returns the sample on a missed frame.
C12_UpdateRule ==
    [][(pc = "find_ground" /\ cast_done') =>
        /\ CacheUpdated(ViableGroundCast, ViableGroundCast', next_ground'.viable)
        /\ CacheUpdated(GroundCast, GroundCast', next_ground'.any)]_vars

\* a cast that found no viable ground: the sample is kept as Last
C12_Witness ==
    /\ pc = "determine_groundedness" /\ cast_done
    /\ ~next_ground.viable.found /\ ViableGroundCast.tag = "Last"

\* C13: a Last entry is a one-frame grace: a further tick with no viable
\* sample and no contact returns the cache to None.
C13_LastExpires ==
    [][(/\ pc = "find_ground" /\ cast_done' /\ ~next_ground'.viable.found
        /\ ~contacts_with /\ ViableGroundCast.tag = "Last") =>
        ViableGroundCast'.tag = "None"]_vars

\* C14: after determine_groundedness, Grounded is true only if the viable
\* cache is Current and its sample is viable; with None or Last it is
\* false.
C14_GroundedOnlyOnCurrent ==
    (pc # "determine_groundedness" /\ Grounded) =>
        has_current(ViableGroundCast) /\ ViableGroundCast.ground.viable

\* grounded on a current viable sample
C14_Witness == pc = "gravity_force" /\ Grounded

\* float_force has run on a current viable sample closer than the float
\* distance
FloatCompressed ==
    /\ pc = "upright_force"
    /\ has_current(GroundCast) /\ GroundCast.ground.viable
    /\ GroundCast.ground.cast.gap < FloatDistance

FloatRelativeVelocity ==
    ControllerVelocity.linear - GroundCast.ground.point_velocity

\* C16 (as stated): with viable ground closer than the float distance the
\* float force is strictly positive along up, for every velocity.
C16_Original == FloatCompressed => FloatForce > 0

\* C16 (amended): with viable ground closer than the float distance the
\* float force along up is strength * (distance - gap) - damping *
\* relative velocity, strictly positive iff the spring term exceeds the
\* damping term.
C16_FloatSpring ==
    FloatCompressed =>
        LET spring == (FloatDistance - GroundCast.ground.cast.gap)
                      * FloatStrength
            damping == FloatRelativeVelocity * FloatDampCoefficient
        IN  /\ FloatForce = spring - damping
            /\ (FloatForce > 0) <=> (spring > damping)

\* the float force pushes a body that falls onto close ground
C16_Witness ==
    FloatCompressed /\ FloatRelativeVelocity < 0 /\ FloatForce > 0

\* The stages of a tick in the order of the claim
Schedule ==
    <<"input", "sync", "find_ground", "determine_groundedness",
      "gravity_force", "movement_force", "float_force", "upright_force",
      "jump_force", "accumulate_forces", "apply_forces",
      "apply_ground_forces", "physics">>

\* C17: within a tick the stages run in the order sync, find_ground,
\* determine_groundedness, gravity, movement, float, upright, jump,
\* accumulate_forces, apply_forces, apply_ground_forces; each starts when
\* the one before it has finished, and the next tick starts after the last.
C17_StageOrder ==
    [][\E i \in 1..Len(Schedule) :
          /\ pc = Schedule[i]
          /\ pc' = Schedule[(i % Len(Schedule)) + 1]]_vars

\* a tick that went through every stage and fired a jump
C17_Witness == pc = "physics" /\ cast_done /\ jump_branch = "launch"

\* C19: after accumulate_forces the linear total is movement + jump +
\* float + gravity and the angular total is movement + upright of the same
\* tick, whatever the totals of the tick before.
C19_Accumulated ==
    pc = "apply_forces" =>
        /\ ControllerForce.linear =
              MovementForce.linear + JumpForce + FloatForce + GravityForce
        /\ ControllerForce.angular = MovementForce.angular + UprightForce

\* totals with a torque and a jump force in them
C19_Witness ==
    /\ pc = "apply_forces" /\ ControllerForce.angular # 0
    /\ JumpForce # 0 /\ FloatForce # 0

\* C20: remaining_jumps <= jumps and no timer is negative.
C20_TimersInRange ==
    /\ Jump.remaining_jumps <= Jump.jumps
    /\ Jump.cooldown_timer >= 0
    /\ Jump.jump_timer >= 0
    /\ Jump.buffer_timer >= 0
    /\ Jump.coyote_timer >= 0
    /\ GroundCaster.skip_ground_check_timer >= 0

\* after a jump every timer of it has run out
C20_Witness ==
    /\ AfterJumpForce /\ Jump.remaining_jumps < Jump.jumps
    /\ Jump.cooldown_timer = 0 /\ Jump.jump_timer = 0
    /\ Jump.buffer_timer = 0

----------------------------------------------------------------------------
(* Two controlled bodies.  Every system of the schedule is a loop over the  *)
(* bodies its query matches, in an order the scheduler chooses; a system    *)
(* starts when the system before it has finished with every body.  The     *)
(* variables of the module are the components of the first body, Other     *)
(* holds the components of the second, which may stand on the first.       *)

\* One system of the schedule on the components b of a body: the body of
\* the system's loop.  in holds what the system reads from the application
\* and the physics engine.
SystemOn(b, in) ==
    LET system == b.pc
        done == [b EXCEPT !.pc = NextSystem(system)]
    IN  CASE system = "input" ->
                [done EXCEPT !.ControllerInput = [jumping |-> in.jumping]]
          [] system = "sync" ->
                [done EXCEPT !.ControllerVelocity = in.velocity]
          [] system = "find_ground" ->
                LET caster == b.GroundCaster
                    casting == caster.skip_ground_check_timer = 0
                               /\ ~caster.skip_ground_check_override
                    timer == IF casting
                             THEN caster.skip_ground_check_timer
                             ELSE Max(caster.skip_ground_check_timer - Dt, 0)
                IN  [done EXCEPT
                        !.ViableGroundCast =
                            IF casting
                            THEN update(@, in.next.viable.found,
                                        from_cast(in.next.viable.cast, caster))
                            ELSE @,
                        !.GroundCast =
                            IF casting
                            THEN update(@, in.next.any.found,
                                        from_cast(in.next.any.cast, caster))
                            ELSE @,
                        !.ground_entity =
                            IF casting /\ in.next.viable.found
                            THEN in.entity ELSE @,
                        !.GroundCaster.skip_ground_check_timer =
                            IF in.contact THEN 0 ELSE timer]
          [] system = "determine_groundedness" ->
                [done EXCEPT !.Grounded =
                    GroundedBand(b.ViableGroundCast,
                                 b.ControllerVelocity.linear)]
          [] system = "gravity_force" ->
                [done EXCEPT !.GravityForce = Mass * GravityAcceleration]
          [] system = "movement_force" ->
                [done EXCEPT !.MovementForce.linear =
                    MovementLinear(b.GroundCast)]
          [] system = "float_force" ->
                [done EXCEPT !.FloatForce =
                    FloatLinear(b.GroundCast, b.ControllerVelocity.linear)]
          [] system = "upright_force" ->
                [done EXCEPT !.UprightForce =
                    UprightAngular(b.ControllerVelocity)]
          [] system = "jump_force" ->
                LET branch == JumpBranch(b.Jump, b.ControllerInput, b.Grounded)
                    j3 == JumpTicked(b.Jump, b.Grounded)
                    j4 == JumpBuffered(j3, b.ControllerInput, b.Grounded)
                    j5 == CASE branch = "launch" -> JumpLaunched(j4)
                            [] branch = "stop" -> JumpStopped(j4)
                            [] OTHER -> j4
                    velocity ==
                        IF has_last(b.ViableGroundCast)
                        THEN b.ControllerVelocity.linear
                             - b.ViableGroundCast.ground.point_velocity
                        ELSE b.ControllerVelocity.linear
                IN  [done EXCEPT
                        !.JumpForce = JumpLinear(j4, branch, velocity),
                        !.GravityForce = ForceAfterJump(@, branch),
                        !.FloatForce = ForceAfterJump(@, branch),
                        !.GroundCaster.skip_ground_check_timer =
                            SkipTimerAfterJump(@, branch, j4),
                        !.Jump = [j5 EXCEPT !.pressed_last_frame =
                                               b.ControllerInput.jumping]]
          [] system = "accumulate_forces" ->
                [done EXCEPT
                    !.ControllerForce =
                        [linear |-> b.MovementForce.linear + b.JumpForce
                                    + b.FloatForce + b.GravityForce,
                         angular |-> b.MovementForce.angular
                                     + b.UprightForce],
                    !.GroundForce =
                        -1 * (b.MovementForce.linear
                                  * OpposingMovementForceScale
                              + (b.JumpForce + b.FloatForce)
                                  * OpposingForceScale)]
          [] system = "apply_forces" ->
                [done EXCEPT
                    !.ExternalImpulse =
                        [impulse |-> @.impulse + b.ControllerForce.linear * Dt,
                         torque_impulse |-> @.torque_impulse
                                            + b.ControllerForce.angular * Dt]]
          [] system = "apply_ground_forces" -> done
          [] system = "physics" ->
                [done EXCEPT !.ExternalImpulse =
                                [impulse |-> 0, torque_impulse |-> 0]]

\* The casts of a body over flat ground in reach
FlatCasts ==
    {o \in CastOutcomes(MaxGroundAngle) :
        /\ o.any = o.viable
        /\ o.any.found
        /\ o.any.cast.gap < FloatDistance
        /\ o.any.cast.point_velocity = 0}

\* What the systems read for the second body, which stands on the first
\* or has nothing below it: the jump input, a backend velocity of zero, the
\* casts, no contact, and the entity the cast hits.
BodyInputs ==
    [jumping : BOOLEAN,
     velocity : {[linear |-> 0, angular |-> 0]},
     next : FlatCasts \cup {NoGround},
     contact : {FALSE},
     entity : {"self"}]

\* the first body stands or jumps in place over flat ground
SelfInputs ==
    /\ ControllerVelocity = [linear |-> 0, angular |-> 0]
    /\ cast_done => next_ground \in FlatCasts
    /\ ~contacts_with

\* apply_ground_forces of the second body: the impulse on the body it
\* stands on, when that is the first body
GroundPush(b) ==
    IF /\ b.pc = "apply_ground_forces"
       /\ has_current(b.ViableGroundCast)
       /\ b.ground_entity = "self"
    THEN b.GroundForce * Dt
    ELSE 0

\* A system takes the first body
self_system ==
    /\ Other.pc \in {pc, NextSystem(pc)}
    /\ Next
    /\ SelfInputs'

\* a system that keeps the skip timer in one place for all bodies
other_system_shared_timer ==
    /\ pc \in {Other.pc, NextSystem(Other.pc)}
    /\ \E in \in BodyInputs : Other' = SystemOn(Other, in)
    /\ ExternalImpulse' =
          [ExternalImpulse EXCEPT !.impulse = @ + GroundPush(Other)]
    /\ GroundCaster' =
          [GroundCaster EXCEPT !.skip_ground_check_timer =
              Other'.GroundCaster.skip_ground_check_timer]
    /\ UNCHANGED <<pc, Float, CapCall, Jump, GroundCast, ViableGroundCast,
                   Grounded, ControllerInput, ControllerVelocity,
                   contacts_with, GravityForce, MovementForce, FloatForce,
                   JumpForce, UprightForce, ControllerForce, GroundForce,
                   GroundImpulse, cast_done, next_ground, jump_branch,
                   JumpSettings, was_grounded, press_time, launch_time, fired>>

\* A system takes the second body
other_system ==
    /\ pc \in {Other.pc, NextSystem(Other.pc)}
    /\ \E in \in BodyInputs : Other' = SystemOn(Other, in)
    /\ ExternalImpulse' =
          [ExternalImpulse EXCEPT !.impulse = @ + GroundPush(Other)]
    /\ UNCHANGED <<pc, Float, CapCall, Jump, GroundCaster, GroundCast, ViableGroundCast,
                   Grounded, ControllerInput, ControllerVelocity,
                   contacts_with, GravityForce, MovementForce, FloatForce,
                   JumpForce, UprightForce, ControllerForce, GroundForce,
                   GroundImpulse, cast_done, next_ground, jump_branch,
                   JumpSettings, was_grounded, press_time, launch_time, fired>>

BodiesInit ==
    /\ Init
    /\ Jump.jumps = 1
    /\ ~GroundCaster.skip_ground_check_override

BodiesNext == self_system \/ other_system

BodiesSpec == BodiesInit /\ [][BodiesNext]_vars

\* The components of the first body the controller systems write
SelfComponents ==
    <<Jump, GroundCaster, GroundCast, ViableGroundCast, Grounded,
      GravityForce, MovementForce, FloatForce, JumpForce, UprightForce,
      ControllerForce, GroundForce>>

\* C18: a system that takes one body writes no jump, ground cache,
\* grounded or force component of the other body, in whichever order the
\* bodies are taken.
C18_BodiesIndependent ==
    [][/\ (Other' # Other) => UNCHANGED SelfComponents
       /\ (pc' # pc) => (Other' = Other)]_vars

\* both bodies went through jump_force, the second fired a jump while it
\* stands on the first, which did not
C18_Witness ==
    /\ pc = "accumulate_forces" /\ Other.pc = "accumulate_forces"
    /\ jump_branch = "none" /\ Other.JumpForce > 0
    /\ Other.ground_entity = "self"

----------------------------------------------------------------------------
(* Ground::from_cast on its own: a caster with any pair of thresholds       *)
(* classifies a cast with any normal.                                       *)

\* Angles of a normal to the up vector and values of the two thresholds
AngleSamples == {0, 30, 45, 60, 90}

\* GroundCaster's thresholds are public fields the application sets
FromCastInit ==
    /\ pc = "find_ground"
    /\ Jump = JumpNew(1, 3, 5, 6, 3, 3)
    /\ JumpSettings = Jump
    /\ \E u \in AngleSamples, m \in AngleSamples :
          GroundCaster = [skip_ground_check_timer |-> 0,
                          skip_ground_check_override |-> FALSE,
                          unstable_ground_angle |-> u,
                          max_ground_angle |-> m]
    /\ GroundCast = CacheNone
    /\ ViableGroundCast = CacheNone
    /\ Grounded = FALSE
    /\ ControllerInput = [jumping |-> FALSE]
    /\ ControllerVelocity = [linear |-> 0, angular |-> 0]
    /\ contacts_with = FALSE
    /\ GravityForce = 0
    /\ MovementForce = [linear |-> 0, angular |-> 0]
    /\ FloatForce = 0
    /\ JumpForce = 0
    /\ UprightForce = 0
    /\ ControllerForce = [linear |-> 0, angular |-> 0]
    /\ GroundForce = 0
    /\ ExternalImpulse = [impulse |-> 0, torque_impulse |-> 0]
    /\ GroundImpulse = 0
    /\ cast_done = FALSE
    /\ next_ground = NoGround
    /\ jump_branch = "none"
    /\ was_grounded = FALSE
    /\ press_time = MaxTime
    /\ Other = BodyNew
    /\ Float = FloatNew
    /\ CapCall = NoCall
    /\ launch_time = MaxTime
    /\ fired = FALSE

\* next_ground of find_ground: the ground built from what cast_iters
\* returned, put in the cache
ground_from_cast ==
    /\ pc = "find_ground"
    /\ \E a \in AngleSamples \cup {NoAngle}, c \in CastResults :
          LET result == [c EXCEPT !.angle = a]
          IN  /\ GroundCast' =
                    update(GroundCast, TRUE, from_cast(result, GroundCaster))
              /\ next_ground' = [NoGround EXCEPT
                                    !.any = [found |-> TRUE, cast |-> result]]
    /\ cast_done' = TRUE
    /\ UNCHANGED <<Other, Float, CapCall, pc, Jump, GroundCaster, ViableGroundCast, Grounded,
                   ControllerInput, ControllerVelocity, contacts_with,
                   GravityForce, MovementForce, FloatForce, JumpForce,
                   UprightForce, ControllerForce, GroundForce,
                   ExternalImpulse, GroundImpulse, jump_branch, JumpSettings,
                   was_grounded, press_time, launch_time, fired>>

FromCastNext == ground_from_cast

FromCastSpec == FromCastInit /\ [][FromCastNext]_vars

\* C15: for a sample built by from_cast from a non-zero normal, viable iff
\* the angle of the normal to up is <= max_ground_angle, stable iff viable
\* and the angle is <= unstable_ground_angle, and stable implies viable
\* for any pair of thresholds.
C15_Thresholds ==
    (has_current(GroundCast) /\ normal_nonzero(GroundCast.ground.cast)) =>
        LET g == GroundCast.ground
        IN  /\ g.viable <=> (g.cast.angle <= GroundCaster.max_ground_angle)
            /\ g.stable <=>
                  (g.viable
                   /\ g.cast.angle <= GroundCaster.unstable_ground_angle)
            /\ g.stable => g.viable

----------------------------------------------------------------------------
(* The jump state machine over several ticks *)

\* C21: when a jump fires, the time since the jump before it is at least
\* cooldown_duration: no jump fires on a tick less than cooldown_duration
\* after a jump, whatever the input and the charges.
C21_CooldownBetweenJumps ==
    [][(AtJumpForce /\ jump_branch' = "launch") =>
        launch_time + Dt >= Jump.cooldown_duration]_vars

\* a rising edge with a charge left on the tick after a jump: no jump fired
C21_Witness ==
    /\ AfterJumpForce /\ launch_time = Dt /\ launch_time < Jump.cooldown_duration
    /\ ControllerInput.jumping /\ ~fired /\ Jump.remaining_jumps > 0
    /\ jump_branch # "launch"

\* C24: on every tick of the active ascent of a jump (the tick it fires and
\* the ticks with jump_timer > 0 and the input held), the float force in the
\* accumulated force of the tick is zero.
C24_NoFloatInAscent ==
    (pc = "apply_forces" /\ jump_branch \in {"launch", "sustain"}) =>
        /\ FloatForce = 0
        /\ ControllerForce.linear =
              MovementForce.linear + JumpForce + GravityForce

\* C25: the sustained force and the stop force are applied on airborne
\* ticks only: neither is applied on a tick where the body is grounded.
C25_NoSustainOnGround ==
    (AfterJumpForce /\ jump_branch \in {"stop", "sustain"}) => ~Grounded

\* C28: a jump that fires after another jump fired needs a rising edge of
\* the input in between or on its own tick: one press fires one jump.
C28_OneJumpPerPress ==
    [][(AtJumpForce /\ jump_branch' = "launch" /\ fired) => RisingEdge]_vars

\* The fields of Jump that are settings
StaticSettings ==
    {"initial_force", "force", "stop_force", "jumps", "cooldown_duration",
     "jump_duration", "buffer_duration", "coyote_duration",
     "skip_ground_check_duration", "first_jump_grounded"}

\* C29: the settings of Jump are the ones the application inserted, after
\* any number of ticks.
C29_SettingsUnchanged ==
    \A f \in StaticSettings : Jump[f] = JumpSettings[f]

\* find_ground has run on this tick and skipped the cast
CastSkipped ==
    /\ ~cast_done
    /\ pc \notin {"input", "sync", "find_ground"}

\* C30: on a tick where find_ground skips the cast neither cache is
\* Current after it, and Grounded is false after determine_groundedness.
C30_SkipReportsNoGround ==
    CastSkipped =>
        /\ ~has_current(GroundCast)
        /\ ~has_current(ViableGroundCast)
        /\ pc # "determine_groundedness" => ~Grounded

----------------------------------------------------------------------------
(* The pipeline of a body whose application chose first_jump_grounded      *)

\* GroundCaster::default with the thresholds of the model
CasterNew ==
    [skip_ground_check_timer |-> 0,
     skip_ground_check_override |-> FALSE,
     unstable_ground_angle |-> UnstableGroundAngle,
     max_ground_angle |-> MaxGroundAngle]

\* Jump's first_jump_grounded is a public field the application sets
FirstJumpInit ==
    \E f \in BOOLEAN :
        StartAt("input",
                [JumpNew(1, 3, 5, 6, 3, 3) EXCEPT !.first_jump_grounded = f],
                CasterNew, FloatNew)

FirstJumpSpec == FirstJumpInit /\ [][Next]_vars

\* C22: on a first jump (remaining_jumps = jumps) in the air with no coyote
\* time left, first_jump_grounded decides: when it is true no jump fires;
\* when it is false a rising edge with the cooldown elapsed fires a jump.
C22_FirstJumpSetting ==
    [][(/\ AtJumpForce /\ ~Grounded /\ Jump.coyote_timer = 0
        /\ Jump.jumps > 0 /\ Jump.remaining_jumps = Jump.jumps) =>
        IF Jump.first_jump_grounded
        THEN jump_branch' # "launch"
        ELSE (RisingEdge /\ CooldownAfterTick <= 0) =>
                 jump_branch' = "launch"]_vars

----------------------------------------------------------------------------
(* Cap on its own: the two methods of the trait called on any pair of f32  *)

CapInit == StartAt("input", JumpNew(1, 3, 5, 6, 3, 3), CasterNew, FloatNew)

\* the components of the controller, which a call of Cap leaves alone
Components ==
    <<pc, Jump, GroundCaster, GroundCast, ViableGroundCast, Grounded,
      ControllerInput, ControllerVelocity, contacts_with, GravityForce,
      MovementForce, FloatForce, JumpForce, UprightForce, ControllerForce,
      GroundForce, ExternalImpulse, GroundImpulse, cast_done, next_ground,
      jump_branch, JumpSettings, was_grounded, press_time, Other, Float,
      launch_time, fired>>

call_signed_max ==
    /\ \E self \in F32Samples, cap \in F32Samples :
          CapCall' = [method |-> "signed_max", self |-> self, cap |-> cap,
                      result |-> signed_max(self, cap)]
    /\ UNCHANGED Components

call_signed_min ==
    /\ \E self \in F32Samples, cap \in F32Samples :
          CapCall' = [method |-> "signed_min", self |-> self, cap |-> cap,
                      result |-> signed_min(self, cap)]
    /\ UNCHANGED Components

CapNext == call_signed_max \/ call_signed_min

CapSpec == CapInit /\ [][CapNext]_vars

\* C23: the result of signed_min(self, min) is in [min, +inf) for min > 0,
\* in (-inf, min] for min < 0, and is self for min = 0 or NaN.
C23_SignedMinRange ==
    CapCall.method = "signed_min" =>
        LET min == CapCall.cap
            result == CapCall.result
        IN  /\ (~is_nan(min) /\ min > 0) =>
                  (~is_nan(result) /\ result >= min)
            /\ (~is_nan(min) /\ min < 0) =>
                  (~is_nan(result) /\ result <= min)
            /\ (is_nan(min) \/ min = 0) => result = CapCall.self

----------------------------------------------------------------------------
(* determine_groundedness on its own: any band, velocity and viable cache  *)

OffsetSamples == (-MaxOffset)..MaxOffset

UpVelocities == (-MaxOffset - 1)..(MaxOffset + 1)

\* What the viable cache can hold: viable flat ground at some gap below
\* the body, as the current or as the last sample, or nothing
ViableCaches ==
    LET grounds == {from_cast([angle |-> 0, gap |-> g, point_velocity |-> 0],
                              CasterNew) :
                       g \in 0..(FloatDistance + 2 * MaxOffset + 1)}
    IN  {CacheNone} \cup {CacheLast(g) : g \in grounds}
                    \cup {CacheGround(g) : g \in grounds}

\* Float's offsets are public fields the application sets, to a band that
\* is not empty
GroundedInit ==
    \E mn \in OffsetSamples : \E mx \in {o \in OffsetSamples : mn <= o} :
        StartAt("determine_groundedness", JumpNew(1, 3, 5, 6, 3, 3), CasterNew,
                [distance |-> FloatDistance, min_offset |-> mn,
                 max_offset |-> mx])

\* determine_groundedness on the velocity the backend reports and the cache
\* find_ground left
determine_groundedness_of ==
    /\ pc = "determine_groundedness"
    /\ \E v \in UpVelocities, cache \in ViableCaches :
          /\ ControllerVelocity' = [linear |-> v, angular |-> 0]
          /\ ViableGroundCast' = cache
          /\ Grounded' = GroundedBand(cache, v)
    /\ UNCHANGED <<Other, Float, CapCall, pc, Jump, GroundCaster, GroundCast,
                   ControllerInput, contacts_with, GravityForce,
                   MovementForce, FloatForce, JumpForce, UprightForce,
                   ControllerForce, GroundForce, ExternalImpulse,
                   GroundImpulse, cast_done, next_ground, jump_branch,
                   JumpSettings, was_grounded, press_time, launch_time,
                   fired>>

GroundedNext == determine_groundedness_of

GroundedSpec == GroundedInit /\ [][GroundedNext]_vars

Abs(x) == IF x < 0 THEN -x ELSE x

\* The band of the claim for the velocity of the state
EffectiveMax ==
    IF ControllerVelocity.linear > Float.max_offset
    THEN Float.max_offset + ControllerVelocity.linear
    ELSE Float.max_offset

EffectiveMin ==
    IF ControllerVelocity.linear < Float.min_offset
    THEN Float.min_offset + ControllerVelocity.linear
    ELSE Float.min_offset

\* Grounded is true exactly when a current viable ground exists and its
\* offset is in the effective band
GroundedIffInBand ==
    Grounded <=>
        /\ has_current(ViableGroundCast)
        /\ ViableGroundCast.ground.viable
        /\ LET offset == Float.distance - ViableGroundCast.ground.cast.gap
           IN  EffectiveMin <= offset /\ offset <= EffectiveMax

\* the effective band contains the configured one and is at most |v| wider
BandWidened ==
    /\ EffectiveMin <= Float.min_offset
    /\ EffectiveMax >= Float.max_offset
    /\ Float.min_offset - EffectiveMin <= Abs(ControllerVelocity.linear)
    /\ EffectiveMax - Float.max_offset <= Abs(ControllerVelocity.linear)

----------------------------------------------------------------------------
(* The casting branch of find_ground on its own, with what the cast hit    *)

\* a caster with any thresholds, the unstable angle below the maximum
GroundCastInit ==
    \E u \in AngleSamples : \E m \in {a \in AngleSamples : u <= a} :
        StartAt("find_ground", JumpNew(1, 3, 5, 6, 3, 3),
                [CasterNew EXCEPT !.unstable_ground_angle = u,
                                  !.max_ground_angle = m],
                FloatNew)

\* find_ground with the skip timer at 0: next_ground also records the hit
\* of the first cast
find_ground_cast ==
    /\ pc = "find_ground"
    /\ \E h \in CastHits, o \in CastOutcomes(GroundCaster.max_ground_angle) :
          /\ o.any = cast(h)
          /\ ViableGroundCast' =
                update(ViableGroundCast, o.viable.found,
                       from_cast(o.viable.cast, GroundCaster))
          /\ GroundCast' =
                update(GroundCast, o.any.found,
                       from_cast(o.any.cast, GroundCaster))
          /\ next_ground' = [viable |-> o.viable, any |-> o.any, hit |-> h]
    /\ cast_done' = TRUE
    /\ UNCHANGED <<Other, Float, CapCall, pc, Jump, GroundCaster, Grounded,
                   ControllerInput, ControllerVelocity, contacts_with,
                   GravityForce, MovementForce, FloatForce, JumpForce,
                   UprightForce, ControllerForce, GroundForce,
                   ExternalImpulse, GroundImpulse, jump_branch, JumpSettings,
                   was_grounded, press_time, launch_time, fired>>

GroundCastNext == find_ground_cast

GroundCastSpec == GroundCastInit /\ [][GroundCastNext]_vars

\* the cast of this tick hit something and got no normal for it
ZeroNormalHit ==
    cast_done /\ next_ground.hit.found /\ ~normal_nonzero(next_ground.hit.cast)

\* no sample in a cache has a zero-length normal
NoZeroNormalStored ==
    /\ has_last(GroundCast) => normal_nonzero(GroundCast.ground.cast)
    /\ has_last(ViableGroundCast) =>
          normal_nonzero(ViableGroundCast.ground.cast)

====
